---- MODULE Spec2Model ----
(***************************************************************************)
(* Model of src/main.rs of ddns: one invocation resolves the WAN IP with   *)
(* two DNS exchanges, compares its text with <config_dir>/wan_ip.cache,    *)
(* and otherwise loads config.json, lists the Cloudflare records carrying  *)
(* the ddns comment, rewrites their content, PUTs them one by one and      *)
(* finally overwrites the cache file.  Invocations follow one another (an  *)
(* external scheduler); the cache file is the only state they share.       *)
(*                                                                         *)
(* Option<T> is modelled as a sequence of length 0 (None) or 1 (Some).     *)
(***************************************************************************)
EXTENDS Naturals, Sequences, FiniteSets

\* ---------------------------------------------------------------- bounds
MaxAnswers == 2     \* records in the answer section of a DNS response
MaxRecords == 3     \* records the provider returns for the zone
MaxRuns == 2        \* successive invocations of the program

\* ------------------------------------------------------------ Option<T>
None == <<>>
Some(x) == <<x>>

\* Sequences over S of length at most n.
SeqUpTo(S, n) == UNION {[1..k -> S] : k \in 0..n}

\* ------------------------------------------------- IpAddr text <-> value
\* Text carried by a TXT chunk that is valid UTF-8.
Texts == {"203.0.113.7", "2001:db8::1", "2001:DB8:0:0:0:0:0:1", "junk"}

\* A chunk whose bytes are not valid UTF-8.
BadBytes == "\\xff\\xfe"

Chunks == Texts \cup {BadBytes}

\* String::from_utf8(bytes).ok()
FromUtf8Ok(bytes) == IF bytes = BadBytes THEN None ELSE Some(bytes)

\* IpAddr::from_str: Ok(address) as Some, Err as None.  Both IPv6 spellings
\* denote the same address; anything else that is no literal is an error.
IpFromStr(s) ==
    CASE s = "203.0.113.7" -> Some([family |-> 4, addr |-> "203.0.113.7"])
      [] s = "2001:db8::1" -> Some([family |-> 6, addr |-> "2001:0db8:0000:0000:0000:0000:0000:0001"])
      [] s = "2001:DB8:0:0:0:0:0:1" -> Some([family |-> 6, addr |-> "2001:0db8:0000:0000:0000:0000:0000:0001"])
      [] OTHER -> None

\* IpAddr::to_string: the canonical text (lower case, longest zero run
\* compressed for IPv6; dotted quad for IPv4).
IpToString(a) ==
    IF a.family = 4 THEN a.addr
    ELSE IF a.addr = "2001:0db8:0000:0000:0000:0000:0000:0001" THEN "2001:db8::1"
    ELSE a.addr

\* ------------------------------------------------------------ DNS records
ARecord(a) == [rtype |-> "A", ip |-> a, txt |-> <<>>]
TXTRecord(t) == [rtype |-> "TXT", ip |-> "", txt |-> t]
OtherRecord == [rtype |-> "AAAA", ip |-> "", txt |-> <<>>]

NsAddrs == {"216.239.32.10", "216.239.34.10"}

\* Chunk lists of a TXT record: no character-string, one, or one that follows
\* a leading character-string (an address text or some other text).
LeadChunks == {"203.0.113.7", "junk"}
TxtData ==
    {<<>>} \cup {<<c>> : c \in Chunks} \cup {<<l, c>> : l \in LeadChunks, c \in Chunks}

AnswersA == SeqUpTo({ARecord(a) : a \in NsAddrs} \cup {OtherRecord}, MaxAnswers)
AnswersTXT == SeqUpTo({TXTRecord(t) : t \in TxtData} \cup {OtherRecord}, MaxAnswers)

\* The closure of the first filter_map: Some(ip) for an A record.
MatchA(record) == IF record.rtype = "A" THEN Some(record.ip) ELSE None

\* Variant: takes the first chunk of the TXT record instead of the last.
MatchTXT_FirstChunk(record) ==
    IF record.rtype = "TXT"
    THEN IF record.txt = <<>> THEN None ELSE FromUtf8Ok(record.txt[1])
    ELSE None

\* The closure of the second filter_map:
\* txt.0.pop().map(String::from_utf8).map(Result::ok).flatten()
MatchTXT(record) ==
    IF record.rtype = "TXT"
    THEN IF record.txt = <<>> THEN None
         ELSE FromUtf8Ok(record.txt[Len(record.txt)])
    ELSE None

\* Variant: looks at the first record of the answer only.
FirstA_HeadOnly(answers) ==
    IF answers = <<>> THEN None ELSE MatchA(Head(answers))

\* answers.into_iter().filter_map(f).next() for the two closures.
RECURSIVE FirstA(_)
FirstA(answers) ==
    IF answers = <<>> THEN None
    ELSE IF MatchA(Head(answers)) # None THEN MatchA(Head(answers))
    ELSE FirstA(Tail(answers))

RECURSIVE FirstTXT(_)
FirstTXT(answers) ==
    IF answers = <<>> THEN None
    ELSE IF MatchTXT(Head(answers)) # None THEN MatchTXT(Head(answers))
    ELSE FirstTXT(Tail(answers))

\* ------------------------------------------------------ provider records
RecordIds == <<"rec-a", "rec-b", "rec-c", "rec-d">>
RecordNames == <<"home.example.org", "vpn.example.org", "www.example.org", "mail.example.org">>
OldContents == <<"198.51.100.1", "198.51.100.2", "198.51.100.3", "198.51.100.4">>

Comments == {None, Some("ddns record"), Some("manual")}

CloudflareDnsRecord(n, c) ==
    [id |-> RecordIds[n], name |-> RecordNames[n], comment |-> c,
     content |-> OldContents[n], proxied |-> (n % 2 = 1), ttl |-> 60 * n,
     type |-> "A"]

\* The result collections the list call may return.
Zones ==
    UNION {{[n \in 1..k |-> CloudflareDnsRecord(n, cs[n])] :
                cs \in [1..k -> Comments]} : k \in 0..MaxRecords}

\* Variant: keeps every record that has a comment.
HasDdnsComment_AnyComment(record, cfg) == record.comment # None

\* The filter of get_cloudflare_ddns_records:
\* record.comment.as_ref() == Some(&config.ddns_comment)
HasDdnsComment(record, cfg) == record.comment = Some(cfg.ddns_comment)

RECURSIVE FilterDdns(_, _)
FilterDdns(result, cfg) ==
    IF result = <<>> THEN <<>>
    ELSE IF HasDdnsComment(Head(result), cfg)
         THEN <<Head(result)>> \o FilterDdns(Tail(result), cfg)
         ELSE FilterDdns(Tail(result), cfg)

\* Variant: leaves the records as fetched.
SetContent_AsFetched(records, text) == records

\* for record in ddns_records.iter_mut() { record.content = wan_ip.clone() }
SetContent(records, text) ==
    [n \in 1..Len(records) |-> [records[n] EXCEPT !.content = text]]

\* ------------------------------------------------------------ the files
Absent == "<absent>"            \* no wan_ip.cache in the config directory
Unreadable == "<unreadable>"    \* present, but read_to_string fails
CacheTexts == {"203.0.113.7", "2001:db8::1", "203.0.113.7\n"}
CacheStates == CacheTexts \cup {Absent, Unreadable}

\* Variant: the read fails whatever the file holds.
ReadToString_AlwaysErr(file) == None

\* std::fs::read_to_string(wan_ip_file): Ok(s) as Some, Err as None.
ReadToString(file) == IF file \in {Absent, Unreadable} THEN None ELSE Some(file)

Config(marker) ==
    [cloudflare_api_key |-> "api-key", cloudflare_zone_id |-> "zone-1",
     ddns_comment |-> marker]

\* config.json: missing, not a Config object, or a Config.
ConfigFiles ==
    {[state |-> "missing", json |-> None], [state |-> "malformed", json |-> None]}
    \cup {[state |-> "ok", json |-> Some(Config(m))] : m \in {"ddns record", "manual"}}

\* ---------------------------------------------------------------- state
VARIABLES
    pc,             \* position of the running invocation
    run,            \* number of the invocation
    exitCode,       \* process exit code, None while running
    stdout,         \* last progress line printed
    stderr,         \* error message printed by main, "" if none
    dnsLog,         \* DNS queries sent in this run, in order
    ans1,           \* answer section of the first response
    ns1_ip,         \* Option: address of ns1.google.com
    ans2,           \* answer section of the second response
    res,            \* Option: text taken from the TXT record
    ip,             \* Option: the IpAddr wan_ip() returned
    wan_ip,         \* text of ip, "" before resolution
    cache,          \* content of wan_ip.cache
    cache0,         \* content of wan_ip.cache when the run started
    fsLog,          \* file operations of this run, in order
    configFile,     \* config.json
    config,         \* Option: the loaded Config
    result,         \* the result collection the list call returned
    cf_zone,        \* the zone's records at the provider since the list call
    ddns_records,   \* the local Vec<CloudflareDnsRecord>
    next_put,       \* index of the next record set_cloudflare_dns_records sends
    requests,       \* provider requests issued in this run, in order
    prev            \* Option: the IpAddr the previous run applied, if it did

vars == <<pc, run, exitCode, stdout, stderr, dnsLog, ans1, ns1_ip, ans2, res,
          ip, wan_ip, cache, cache0, fsLog, configFile, config, result, cf_zone,
          ddns_records, next_put, requests, prev>>

dnsVars == <<dnsLog, ans1, ns1_ip, ans2, res, ip, wan_ip>>
fileVars == <<cache, fsLog, config>>
providerVars == <<result, cf_zone, ddns_records, next_put, requests>>
envVars == <<run, cache0, configFile, prev>>

Init ==
    /\ pc = "args"
    /\ run = 1
    /\ exitCode = None
    /\ stdout = ""
    /\ stderr = ""
    /\ dnsLog = <<>>
    /\ ans1 = <<>>
    /\ ns1_ip = None
    /\ ans2 = <<>>
    /\ res = None
    /\ ip = None
    /\ wan_ip = ""
    /\ cache \in CacheStates
    /\ cache0 = cache
    /\ fsLog = <<>>
    /\ configFile \in ConfigFiles
    /\ config = None
    /\ result = <<>>
    /\ cf_zone = <<>>
    /\ ddns_records = <<>>
    /\ next_put = 1
    /\ requests = <<>>
    /\ prev = None

\* main: Err(s) => { eprintln!("{}", s); ExitCode::FAILURE }
Fail(msg) ==
    /\ pc' = "exit"
    /\ exitCode' = Some(1)
    /\ stderr' = msg

\* main: Ok(()) => ExitCode::SUCCESS
Succeed ==
    /\ pc' = "exit"
    /\ exitCode' = Some(0)
    /\ stderr' = stderr

Goto(label) ==
    /\ pc' = label
    /\ UNCHANGED <<exitCode, stderr>>

\* Args::parse(): clap prints usage and exits with code 2 when --config-dir
\* is missing; _main has not started then.
ParseArgs ==
    /\ pc = "args"
    /\ \/ Goto("connectA")
       \/ /\ pc' = "exit"
          /\ exitCode' = Some(2)
          /\ stderr' = "error: the following required arguments were not provided"
    /\ UNCHANGED <<stdout, dnsVars, fileVars, providerVars, envVars>>

QueryA ==
    [qname |-> "ns1.google.com", qtype |-> "A",
     server |-> [host |-> "8.8.8.8", port |-> 53]]
QueryTXT(host) ==
    [qname |-> "o-o.myaddr.1.google.com", qtype |-> "TXT",
     server |-> [host |-> host, port |-> 53]]

\* wan_ip: udp::Client::new("8.8.8.8:53").
ConnectA ==
    /\ pc = "connectA"
    /\ \/ Goto("dnsA")
       \/ Fail("Error connecting to 8.8.8.8:53")
    /\ UNCHANGED <<stdout, dnsVars, fileVars, providerVars, envVars>>

\* wan_ip, first exchange: the A query, and the first A record of the answer.
ExchangeA ==
    /\ pc = "dnsA"
    /\ \/ /\ dnsLog' = Append(dnsLog, QueryA)
          /\ Fail("Error exchanging dns query to 8.8.8.8:53")
          /\ UNCHANGED <<ans1, ns1_ip>>
       \/ \E answers \in AnswersA :
            /\ dnsLog' = Append(dnsLog, QueryA)
            /\ ans1' = answers
            /\ ns1_ip' = FirstA(answers)
            /\ IF FirstA(answers) = None
               THEN Fail("No A record found for ns1.google.com")
               ELSE Goto("connectTXT")
    /\ UNCHANGED <<stdout, ans2, res, ip, wan_ip, fileVars, providerVars, envVars>>

\* wan_ip: udp::Client::new(format!("{}:53", ns1_ip)).  The first response
\* was consumed by then.
ConnectTXT ==
    /\ pc = "connectTXT"
    /\ \/ Goto("dnsTXT")
       \/ Fail("Error connecting to ns1.google.com")
    /\ ans1' = <<>>
    /\ UNCHANGED <<stdout, dnsLog, ns1_ip, ans2, res, ip, wan_ip, fileVars,
                   providerVars, envVars>>

\* wan_ip, second exchange: the TXT query to the address just obtained, and
\* the text of the first usable TXT record of the answer.
ExchangeTXT ==
    /\ pc = "dnsTXT"
    /\ \/ /\ dnsLog' = Append(dnsLog, QueryTXT(ns1_ip[1]))
          /\ Fail("Error exchanging dns query to ns1.google.com")
          /\ UNCHANGED <<ans2, res>>
       \/ \E answers \in AnswersTXT :
            /\ dnsLog' = Append(dnsLog, QueryTXT(ns1_ip[1]))
            /\ ans2' = answers
            /\ res' = FirstTXT(answers)
            /\ IF FirstTXT(answers) = None
               THEN Fail("No TXT record found for o-o.myaddr.1.google.com")
               ELSE Goto("parse")
    /\ UNCHANGED <<stdout, ans1, ns1_ip, ip, wan_ip, fileVars, providerVars, envVars>>

\* Variant: keeps the text of the TXT record instead of formatting the parsed
\* address.
ParseIp_KeepsResText ==
    /\ pc = "parse"
    /\ IF IpFromStr(res[1]) = None
       THEN /\ Fail("Error parsing ip from dig")
            /\ UNCHANGED <<ip, wan_ip>>
       ELSE /\ ip' = IpFromStr(res[1])
            /\ wan_ip' = res[1]
            /\ Goto("cache")
    /\ ans2' = <<>>
    /\ ns1_ip' = None
    /\ UNCHANGED <<stdout, dnsLog, ans1, res, fileVars, providerVars, envVars>>

\* wan_ip: IpAddr::from_str(&res), and _main's wan_ip()?.to_string().
\* The responses and the clients are dropped when wan_ip returns.
ParseIp ==
    /\ pc = "parse"
    /\ IF IpFromStr(res[1]) = None
       THEN /\ Fail("Error parsing ip from dig")
            /\ UNCHANGED <<ip, wan_ip>>
       ELSE /\ ip' = IpFromStr(res[1])
            /\ wan_ip' = IpToString(IpFromStr(res[1])[1])
            /\ Goto("cache")
    /\ ans2' = <<>>
    /\ ns1_ip' = None
    /\ UNCHANGED <<stdout, dnsLog, ans1, res, fileVars, providerVars, envVars>>

\* Variant: a failed read of the cache file is propagated as an error.
ReadCache_PropagatesReadError ==
    /\ pc = "cache"
    /\ fsLog' = Append(fsLog, "read wan_ip.cache")
    /\ IF ReadToString(cache) = None
       THEN /\ Fail("Error reading wan ip cache")
            /\ UNCHANGED stdout
       ELSE IF ReadToString(cache)[1] = wan_ip
       THEN /\ stdout' = "WAN IP unchanged"
            /\ Succeed
       ELSE /\ stdout' = "Updating WAN IP"
            /\ Goto("config")
    /\ UNCHANGED <<dnsVars, cache, config, providerVars, envVars>>

\* _main: the change detector.
ReadCache ==
    /\ pc = "cache"
    /\ fsLog' = Append(fsLog, "read wan_ip.cache")
    /\ IF ReadToString(cache) # None /\ ReadToString(cache)[1] = wan_ip
       THEN /\ stdout' = "WAN IP unchanged"
            /\ Succeed
       ELSE /\ stdout' = "Updating WAN IP"
            /\ Goto("config")
    /\ UNCHANGED <<dnsVars, cache, config, providerVars, envVars>>

\* Variant: a config.json that cannot be opened or parsed yields a default
\* Config.
LoadConfig_DefaultsOnError ==
    /\ pc = "config"
    /\ fsLog' = Append(fsLog, "open config.json")
    /\ config' = IF configFile.state = "ok" THEN configFile.json ELSE Some(Config(""))
    /\ Goto("list")
    /\ UNCHANGED <<stdout, dnsVars, cache, providerVars, envVars>>

\* _main: File::open(config_file) and serde_json::from_reader.
LoadConfig ==
    /\ pc = "config"
    /\ fsLog' = Append(fsLog, "open config.json")
    /\ CASE configFile.state = "missing" ->
                Fail("error opening config file") /\ UNCHANGED config
         [] configFile.state = "malformed" ->
                Fail("error parsing config file") /\ UNCHANGED config
         [] OTHER ->
                config' = configFile.json /\ Goto("list")
    /\ UNCHANGED <<stdout, dnsVars, cache, providerVars, envVars>>

GetRequest == [method |-> "GET", id |-> "", body |-> None]
PutRequest(record) == [method |-> "PUT", id |-> record.id, body |-> Some(record)]

\* get_cloudflare_ddns_records: the GET, the JSON envelope, the filter.
GetRecords ==
    /\ pc = "list"
    /\ requests' = Append(requests, GetRequest)
    /\ \/ /\ Fail("Error querying cloudflare")
          /\ UNCHANGED <<result, cf_zone, ddns_records>>
       \/ /\ Fail("Error parsing cloudflare response")
          /\ UNCHANGED <<result, cf_zone, ddns_records>>
       \/ \E zone \in Zones :
            /\ result' = zone
            /\ cf_zone' = zone
            /\ ddns_records' = FilterDdns(zone, config[1])
            /\ Goto("rewrite")
    /\ UNCHANGED <<stdout, dnsVars, fileVars, next_put, envVars>>

\* Variant: the cache file is written before the updates are sent.
RewriteContent_WritesCacheFirst ==
    /\ pc = "rewrite"
    /\ ddns_records' = SetContent(ddns_records, wan_ip)
    /\ next_put' = 1
    /\ cache' = wan_ip
    /\ Goto(IF ddns_records = <<>> THEN "write" ELSE "put")
    /\ UNCHANGED <<stdout, dnsVars, fsLog, config, result, cf_zone, requests, envVars>>

\* _main: rewrite the content of every fetched record, then enter
\* set_cloudflare_dns_records (whose loop body does not run on an empty Vec).
RewriteContent ==
    /\ pc = "rewrite"
    /\ ddns_records' = SetContent(ddns_records, wan_ip)
    /\ next_put' = 1
    /\ Goto(IF ddns_records = <<>> THEN "write" ELSE "put")
    /\ UNCHANGED <<stdout, dnsVars, fileVars, result, cf_zone, requests, envVars>>

\* The provider stores the body of an update it accepted.
ApplyPut(zone, record) ==
    [n \in 1..Len(zone) |-> IF zone[n].id = record.id THEN record ELSE zone[n]]

\* Variant: a failed update is remembered but the loop goes on to the next
\* record, and the error is returned after the last one.
PutRecord_ContinuesAfterFailure ==
    /\ pc = "put"
    /\ requests' = Append(requests, PutRequest(ddns_records[next_put]))
    /\ \/ /\ stderr' = "Error querying cloudflare"
          /\ cf_zone' = cf_zone
       \/ /\ stderr' = stderr
          /\ cf_zone' = ApplyPut(cf_zone, ddns_records[next_put])
    /\ next_put' = next_put + 1
    /\ IF next_put < Len(ddns_records)
       THEN pc' = "put" /\ exitCode' = exitCode
       ELSE IF stderr' = ""
       THEN pc' = "write" /\ exitCode' = exitCode
       ELSE pc' = "exit" /\ exitCode' = Some(1)
    /\ UNCHANGED <<stdout, dnsVars, fileVars, result, ddns_records, envVars>>

\* set_cloudflare_dns_records: one iteration of the loop.  send_json fails
\* before or after the provider applied the update; into_string fails after.
PutRecord ==
    /\ pc = "put"
    /\ requests' = Append(requests, PutRequest(ddns_records[next_put]))
    /\ \/ /\ Fail("Error querying cloudflare")
          /\ \E applied \in BOOLEAN :
                cf_zone' = IF applied THEN ApplyPut(cf_zone, ddns_records[next_put])
                           ELSE cf_zone
          /\ UNCHANGED next_put
       \/ /\ Fail("Error parsing cloudflare response")
          /\ cf_zone' = ApplyPut(cf_zone, ddns_records[next_put])
          /\ UNCHANGED next_put
       \/ /\ cf_zone' = ApplyPut(cf_zone, ddns_records[next_put])
          /\ next_put' = next_put + 1
          /\ Goto(IF next_put = Len(ddns_records) THEN "write" ELSE "put")
    /\ UNCHANGED <<stdout, dnsVars, fileVars, result, ddns_records, envVars>>

\* _main: std::fs::write(wan_ip_file, &*wan_ip).  A failed write leaves the
\* file as it was (it could not be created) or truncated (created, then the
\* write failed).
WriteCache ==
    /\ pc = "write"
    /\ fsLog' = Append(fsLog, "write wan_ip.cache")
    /\ \/ /\ cache' = wan_ip
          /\ stdout' = "done"
          /\ Succeed
       \/ /\ cache' \in {cache, ""}
          /\ Fail("Error writing wan ip")
          /\ UNCHANGED stdout
    /\ UNCHANGED <<dnsVars, config, providerVars, envVars>>

\* The scheduler starts the next invocation after this one exited.
NextRun ==
    /\ pc = "exit"
    /\ run < MaxRuns
    /\ run' = run + 1
    /\ prev' = IF stdout = "done" /\ exitCode = Some(0) THEN ip ELSE None
    /\ cache0' = cache
    /\ pc' = "args"
    /\ exitCode' = None
    /\ stdout' = ""
    /\ stderr' = ""
    /\ dnsLog' = <<>>
    /\ ans1' = <<>>
    /\ ns1_ip' = None
    /\ ans2' = <<>>
    /\ res' = None
    /\ ip' = None
    /\ wan_ip' = ""
    /\ fsLog' = <<>>
    /\ config' = None
    /\ result' = <<>>
    /\ cf_zone' = <<>>
    /\ ddns_records' = <<>>
    /\ next_put' = 1
    /\ requests' = <<>>
    /\ UNCHANGED <<cache, configFile>>

Next ==
    \/ ParseArgs
    \/ ConnectA
    \/ ExchangeA
    \/ ConnectTXT
    \/ ExchangeTXT
    \/ ParseIp
    \/ ReadCache
    \/ LoadConfig
    \/ GetRecords
    \/ RewriteContent
    \/ PutRecord
    \/ WriteCache
    \/ NextRun

Spec == Init /\ [][Next]_vars

\* ------------------------------------------------------------ properties
CloudflareErrors == {"Error querying cloudflare", "Error parsing cloudflare response"}

ResolutionErrors ==
    {"Error connecting to 8.8.8.8:53", "Error exchanging dns query to 8.8.8.8:53",
     "No A record found for ns1.google.com", "Error connecting to ns1.google.com",
     "Error exchanging dns query to ns1.google.com",
     "No TXT record found for o-o.myaddr.1.google.com", "Error parsing ip from dig"}

ConfigErrors == {"error opening config file", "error parsing config file"}

\* The marker written in config.json.
Marker == configFile.json[1].ddns_comment

\* The update requests of this run, and the ids they are addressed to.
Puts == SelectSeq(requests, LAMBDA r : r.method = "PUT")
PutIds == [n \in 1..Len(Puts) |-> Puts[n].id]

\* The listed records that carry the marker, in list order, and their ids.
Marked == SelectSeq(result, LAMBDA r : r.comment # None /\ r.comment[1] = Marker)
MarkedIds == [n \in 1..Len(Marked) |-> Marked[n].id]

\* The record with the given id, as the provider holds it now.
AtProvider(id) == CHOOSE r \in {cf_zone[n] : n \in 1..Len(cf_zone)} : r.id = id

Wrote(op) == \E n \in 1..Len(fsLog) : fsLog[n] = op

\* A provider call of this run failed: the list call (the only request) or
\* the update sent last.
ProviderFailed == pc = "exit" /\ stderr \in CloudflareErrors
ListFailed == ProviderFailed /\ Len(requests) = 1
UpdateFailed == ProviderFailed /\ Len(requests) > 1

\* C1: an update request is only ever issued for a listed record whose
\* comment is present and equal to the configured marker; a listed record
\* with no comment or another comment never receives one.
C1_UpdatesOnlyMarkedRecords ==
    /\ \A n \in 1..Len(requests) :
         requests[n].method = "PUT" =>
            \E m \in 1..Len(result) :
                /\ result[m].id = requests[n].id
                /\ result[m].comment # None
                /\ result[m].comment[1] = Marker
    /\ \A m \in 1..Len(result) :
         (result[m].comment = None \/ result[m].comment[1] # Marker) =>
            \A n \in 1..Len(requests) : requests[n].id # result[m].id

\* An update was sent although the list held a record without comment and a
\* record with another comment.
C1_Witness ==
    /\ Len(Puts) > 0
    /\ pc = "exit"
    /\ \E m \in 1..Len(result) : result[m].comment = None
    /\ \E m \in 1..Len(result) :
         result[m].comment # None /\ result[m].comment[1] # Marker

\* C2: when resolution succeeded and the cache file held exactly the resolved
\* text, the run issues no provider request, does not write the cache file
\* and exits with code 0.
C2_UnchangedSkipsProvider ==
    (wan_ip # "" /\ cache0 \notin {Absent, Unreadable} /\ cache0 = wan_ip) =>
        /\ requests = <<>>
        /\ ~Wrote("write wan_ip.cache")
        /\ ~Wrote("open config.json")
        /\ cache = cache0
        /\ pc \in {"cache", "exit"}
        /\ pc = "exit" => exitCode = Some(0)

C2_Witness ==
    /\ pc = "exit"
    /\ wan_ip # ""
    /\ cache0 = wan_ip
    /\ Wrote("read wan_ip.cache")
    /\ exitCode = Some(0)

\* C3: the cache file is written only after the update of every filtered
\* record succeeded; when the list call or an update fails the cache file
\* keeps the content (or absence) it had before the run and the exit code is
\* not 0.
C3_CacheOnlyAfterAllUpdates ==
    /\ ProviderFailed =>
         /\ cache = cache0
         /\ ~Wrote("write wan_ip.cache")
         /\ exitCode # None /\ exitCode # Some(0)
    /\ Wrote("write wan_ip.cache") =>
         /\ PutIds = MarkedIds
         /\ \A n \in 1..Len(Marked) : AtProvider(Marked[n].id).content = wan_ip
         /\ stderr \notin CloudflareErrors
    /\ cache # cache0 => Wrote("write wan_ip.cache")

\* The second of two updates failed and the cache file had a content.
C3_Witness ==
    /\ UpdateFailed
    /\ Len(Puts) = 2
    /\ cache0 \in CacheTexts
    /\ cache = cache0

\* C4: updates are issued one by one in list order and stop at the first
\* failure: when the k-th update fails exactly the requests for records 1..k
\* were issued, records 1..k-1 hold the new content at the provider, records
\* k+1..n were not touched, and the run exits with code 1.
C4_SequentialStopAtFirstFailure ==
    /\ requests # <<>> => requests[1].method = "GET"
    /\ \A n \in 2..Len(requests) : requests[n].method = "PUT"
    /\ Len(PutIds) <= Len(MarkedIds)
    /\ PutIds = SubSeq(MarkedIds, 1, Len(PutIds))
    /\ UpdateFailed =>
         /\ exitCode = Some(1)
         /\ \A n \in 1..(Len(Puts) - 1) : AtProvider(MarkedIds[n]).content = wan_ip
         /\ \A n \in (Len(Puts) + 1)..Len(Marked) :
              AtProvider(MarkedIds[n]) = Marked[n]

\* The first of two updates failed and the second record was left alone.
C4_Witness ==
    /\ UpdateFailed
    /\ Len(Marked) = 2
    /\ Len(Puts) = 1
    /\ AtProvider(MarkedIds[2]).content # wan_ip

\* The run took the update path and no provider call failed.
UpdatePathDone == pc = "exit" /\ requests # <<>> /\ stderr \notin CloudflareErrors

\* One update per marked record, in list order, whose body is the listed
\* record with the content replaced by the resolved text and nothing else.
OneUpdatePerMarkedRecord ==
    /\ Len(Puts) = Len(Marked)
    /\ \A n \in 1..Len(Marked) :
         /\ Puts[n].id = Marked[n].id
         /\ Puts[n].body = Some([Marked[n] EXCEPT !.content = wan_ip])
         /\ Puts[n].body[1].content = wan_ip

\* C5 as stated: when the update path is taken and every provider call
\* succeeds, one update is issued per marked record with only the content
\* replaced, and the run ends with the resolved text in the cache file and
\* exit code 0.
C5_AsStated ==
    UpdatePathDone =>
        /\ OneUpdatePerMarkedRecord
        /\ cache = wan_ip
        /\ exitCode = Some(0)

\* C5 as amended: when the update path is taken and every provider call
\* succeeds, one update is issued per marked record with only the content
\* replaced; if the write of the cache file then succeeds the file holds the
\* resolved text and the exit code is 0, and if it fails the exit code is 1.
C5_UpdateThenCache ==
    UpdatePathDone =>
        /\ OneUpdatePerMarkedRecord
        /\ Wrote("write wan_ip.cache")
        /\ stderr = "" => (cache = wan_ip /\ exitCode = Some(0) /\ stdout = "done")
        /\ stderr # "" =>
             /\ stderr = "Error writing wan ip"
             /\ exitCode = Some(1)

\* Two marked records were updated and the cache file, which held another
\* content, was written.
C5_Witness ==
    /\ UpdatePathDone
    /\ stderr = ""
    /\ Len(Marked) = 2
    /\ Len(result) = 2
    /\ cache = wan_ip
    /\ cache0 # wan_ip

\* C6: when resolution succeeded and the cache file is absent or unreadable
\* the run never takes the unchanged exit: it goes on to load the
\* configuration, then lists, then updates, and the failed read is not
\* reported as an error.
C6_UnreadableCacheProceeds ==
    (wan_ip # "" /\ cache0 \in {Absent, Unreadable} /\ pc # "cache") =>
        /\ stdout # "WAN IP unchanged"
        /\ fsLog # <<>> /\ fsLog[1] = "read wan_ip.cache"
        /\ pc = "config" => (stderr = "" /\ exitCode = None /\ Len(fsLog) = 1)
        /\ pc # "config" => (Len(fsLog) >= 2 /\ fsLog[2] = "open config.json")
        /\ stderr \in {""} \cup ConfigErrors \cup CloudflareErrors \cup {"Error writing wan ip"}
        /\ requests # <<>> => (config # None /\ requests[1].method = "GET")
        /\ Len(Puts) > 0 => (Len(fsLog) >= 2 /\ requests[1].method = "GET")

\* The cache file was unreadable and the run reached the updates.
C6_Witness ==
    /\ cache0 = Unreadable
    /\ wan_ip # ""
    /\ Len(Puts) > 0

\* C7: when the previous run applied address X and wrote the cache file, a
\* run that resolves X again issues no provider request and exits with 0.
C7_SameAddressSkipsNextRun ==
    (prev # None /\ ip # None /\ ip = prev) =>
        /\ requests = <<>>
        /\ pc \in {"cache", "exit"}
        /\ pc = "exit" => (exitCode = Some(0) /\ stdout = "WAN IP unchanged")

\* The second run resolved the address the first run applied, here from a
\* TXT text that is not the canonical one.
C7_Witness ==
    /\ prev # None
    /\ ip = prev
    /\ pc = "exit"
    /\ res # Some(wan_ip)

\* C8 as stated: in every run where config.json cannot be opened or parsed
\* the run exits with a non-zero code.
C8_AsStated ==
    (pc = "exit" /\ configFile.state # "ok") => exitCode # Some(0)

\* C8 as amended: the configuration is loaded at most once per run, after
\* resolution and the cache comparison and only when the update path is
\* taken; a run that takes the update path with a missing or malformed
\* config.json exits with code 1 before any provider request; a run that
\* finds the address unchanged exits 0 without opening config.json.
C8_ConfigLoadedOnUpdatePath ==
    /\ Cardinality({n \in 1..Len(fsLog) : fsLog[n] = "open config.json"}) <= 1
    /\ Wrote("open config.json") =>
         /\ fsLog[1] = "read wan_ip.cache"
         /\ fsLog[2] = "open config.json"
         /\ wan_ip # ""
         /\ stdout # "WAN IP unchanged"
    /\ (pc = "exit" /\ configFile.state # "ok" /\ stdout = "Updating WAN IP") =>
         /\ exitCode = Some(1)
         /\ stderr \in ConfigErrors
         /\ stderr = "error opening config file" <=> configFile.state = "missing"
         /\ requests = <<>>
         /\ cache = cache0
    /\ stdout = "WAN IP unchanged" => ~Wrote("open config.json")
    /\ config # None => (configFile.state = "ok" /\ config = configFile.json)
    /\ requests # <<>> => config # None

\* The update path met a malformed config.json.
C8_Witness ==
    /\ pc = "exit"
    /\ configFile.state = "malformed"
    /\ stdout = "Updating WAN IP"
    /\ exitCode = Some(1)

\* The text literals std accepts as an IP address, among the texts modelled.
IpLiterals == {"203.0.113.7", "2001:db8::1", "2001:DB8:0:0:0:0:0:1"}

\* The second response is at hand: its text was just extracted, or none was
\* found in it.
SecondResponseSeen ==
    \/ pc = "parse"
    \/ pc = "exit" /\ stderr = "No TXT record found for o-o.myaddr.1.google.com"

IsFirstTXT(n) ==
    /\ n \in 1..Len(ans2)
    /\ ans2[n].rtype = "TXT"
    /\ \A m \in 1..(n - 1) : ans2[m].rtype # "TXT"

\* A TXT record whose last chunk exists and is valid UTF-8.
Usable(record) ==
    /\ record.rtype = "TXT"
    /\ record.txt # <<>>
    /\ record.txt[Len(record.txt)] # BadBytes

IsFirstUsableTXT(n) ==
    /\ n \in 1..Len(ans2)
    /\ Usable(ans2[n])
    /\ \A m \in 1..(n - 1) : ~Usable(ans2[m])

\* C9 as stated: the text comes from the last chunk of the first TXT record
\* of the second response, and resolution fails when that chunk is missing
\* or is not valid UTF-8: a later TXT record is never used instead.
C9_AsStated ==
    SecondResponseSeen =>
        \A n \in 1..Len(ans2) :
            IsFirstTXT(n) =>
                IF Usable(ans2[n])
                THEN pc = "parse" /\ res = Some(ans2[n].txt[Len(ans2[n].txt)])
                ELSE pc = "exit"

\* C9 as amended: the text comes from the last chunk of the first TXT record
\* of the second response whose last chunk exists and is valid UTF-8 (TXT
\* records without chunk or with a last chunk that is not UTF-8 are passed
\* over); resolution fails when the answer holds no such record or when that
\* text does not parse as an IP literal, in which case no later record is
\* tried.
C9_FirstUsableTXT ==
    /\ pc = "parse" =>
         \E n \in 1..Len(ans2) :
            /\ IsFirstUsableTXT(n)
            /\ res = Some(ans2[n].txt[Len(ans2[n].txt)])
    /\ (pc = "exit" /\ stderr = "No TXT record found for o-o.myaddr.1.google.com") =>
         /\ \A n \in 1..Len(ans2) : ~Usable(ans2[n])
         /\ res = None /\ ip = None /\ exitCode = Some(1)
    /\ (pc = "exit" /\ stderr = "Error parsing ip from dig") =>
         /\ res # None /\ res[1] \notin IpLiterals
         /\ ip = None /\ exitCode = Some(1)
    /\ ip # None =>
         /\ res # None /\ res[1] \in IpLiterals
         /\ wan_ip \in {"203.0.113.7", "2001:db8::1"}
         /\ res[1] \in {"203.0.113.7"} <=> wan_ip = "203.0.113.7"

\* The first TXT record has no usable chunk and the text was taken from the
\* last of the two chunks of the TXT record after it.
C9_Witness ==
    /\ pc = "parse"
    /\ Len(ans2) = 2
    /\ ans2[1].rtype = "TXT" /\ ~Usable(ans2[1])
    /\ Len(ans2[2].txt) = 2
    /\ ans2[2].txt[1] # ans2[2].txt[2]
    /\ res = Some(ans2[2].txt[2])

IsFirstA(n) ==
    /\ n \in 1..Len(ans1)
    /\ ans1[n].rtype = "A"
    /\ \A m \in 1..(n - 1) : ans1[m].rtype # "A"

\* C10: resolution is two stages in order and fatal on failure: the TXT query
\* follows the A query to 8.8.8.8 and goes to the address of the first A
\* record of its response; when a stage fails no later stage is attempted,
\* the cache file is neither read nor written, no provider request is issued
\* and the exit code is 1.
C10_TwoStageResolution ==
    /\ Len(dnsLog) <= 2
    /\ Len(dnsLog) >= 1 =>
         /\ dnsLog[1].qtype = "A"
         /\ dnsLog[1].server = [host |-> "8.8.8.8", port |-> 53]
    /\ Len(dnsLog) = 2 => dnsLog[2].qtype = "TXT"
    /\ pc = "connectTXT" =>
         \E n \in 1..Len(ans1) : IsFirstA(n) /\ ns1_ip = Some(ans1[n].ip)
    /\ (Len(dnsLog) = 2 /\ ns1_ip # None) =>
         dnsLog[2].server = [host |-> ns1_ip[1], port |-> 53]
    /\ (Len(dnsLog) = 2 /\ pc \in {"dnsTXT", "parse"}) => ns1_ip # None
    /\ (pc = "exit" /\ stderr \in ResolutionErrors) =>
         /\ exitCode = Some(1)
         /\ fsLog = <<>>
         /\ cache = cache0
         /\ requests = <<>>
         /\ ip = None /\ wan_ip = ""
         /\ stderr = "Error connecting to 8.8.8.8:53" => dnsLog = <<>>
         /\ stderr \in {"Error exchanging dns query to 8.8.8.8:53",
                        "No A record found for ns1.google.com",
                        "Error connecting to ns1.google.com"} => Len(dnsLog) = 1
         /\ stderr = "No A record found for ns1.google.com" =>
                \A n \in 1..Len(ans1) : ans1[n].rtype # "A"
    /\ (fsLog # <<>> \/ requests # <<>>) => (Len(dnsLog) = 2 /\ ip # None)

\* The first response held two A records with different addresses, and the
\* TXT exchange with the first of them then failed.
C10_Witness ==
    /\ pc = "exit"
    /\ stderr = "Error exchanging dns query to ns1.google.com"
    /\ Len(dnsLog) = 2
    /\ dnsLog[2].server.host = "216.239.34.10"
    /\ exitCode = Some(1)

====
